---- MODULE Spec2Model ----
(***************************************************************************)
(* Model of the Delhi Metro route finder (src/metro_graph.py).             *)
(*                                                                         *)
(* Strings are sequences of one-character strings, so that strip() and     *)
(* lower() are computed character by character.  Distances are integers    *)
(* in thousandths of a kilometre (1.1 km = 1100), so that round(x, 2) is   *)
(* a real rounding to a multiple of 10.  The network is the one built by   *)
(* _initialize_metro_network from a fragment of the static table: the rows *)
(* around the Rajiv Chowk / Central Secretariat / Mandi House ring and the *)
(* Karkardooma - Anand Vihar ISBT pair that the table lists twice.         *)
(* Station names are abbreviated to two letters:                           *)
(*   Nd New Delhi, Rc Rajiv Chowk, Pc Patel Chowk, Cs Central Secretariat, *)
(*   Ub Udyog Bhawan, Br Barakhamba Road, Mh Mandi House, Sc Supreme       *)
(*   Court, Ip Indraprastha, Jp Janpath, Km Khan Market, Js JLN Stadium,   *)
(*   Kk Karkardooma, Av Anand Vihar ISBT.                                  *)
(***************************************************************************)
EXTENDS Integers, Sequences, FiniteSets, TLC

\* ------------------------------------------------------------------------
\* Bounds of the model
\* ------------------------------------------------------------------------

\* Largest number of blanks put in front of and behind a raw station name.
MaxPad == 1

\* Number of rows taken from each line of the static table.
MaxRows == 3

\* The longest path handed to _identify_line_changes and get_route_summary.
MaxPathLen == 3

\* Distances (in thousandths of a km) tried on each side of a fare tier limit.
MaxFareGap == 2

\* The longest list of line changes handed to get_route_summary.
MaxChanges == 2

\* The longest query handed to search_stations.
MaxQueryLen == 3

\* ------------------------------------------------------------------------
\* Characters and strings
\* ------------------------------------------------------------------------

\* Characters in code-point order: blank < digits < upper case < lower case.
Alphabet ==
    << " ", "0", "1", "2", "3", "4", "8", "9", "A", "B", "C", "D", "E", "H",
       "I", "J", "K", "L", "M", "N", "O", "P", "R", "S", "T", "U", "V", "W",
       "Z", "a", "b", "c", "d", "e", "h", "i", "j", "k", "l", "m", "n", "o",
       "p", "r", "s", "t", "u", "v", "w", "z" >>

UpperChars ==
    << "A", "B", "C", "D", "E", "H", "I", "J", "K", "L", "M", "N", "O", "P",
       "R", "S", "T", "U", "V", "W", "Z" >>

LowerChars ==
    << "a", "b", "c", "d", "e", "h", "i", "j", "k", "l", "m", "n", "o", "p",
       "r", "s", "t", "u", "v", "w", "z" >>

CharCode(c) == CHOOSE i \in 1..Len(Alphabet) : Alphabet[i] = c

\* str.lower() on one character
LowerChar(c) ==
    IF \E i \in 1..Len(UpperChars) : UpperChars[i] = c
    THEN LowerChars[CHOOSE i \in 1..Len(UpperChars) : UpperChars[i] = c]
    ELSE c

\* str.upper() on one character (used to build raw inputs only)
UpperChar(c) ==
    IF \E i \in 1..Len(LowerChars) : LowerChars[i] = c
    THEN UpperChars[CHOOSE i \in 1..Len(LowerChars) : LowerChars[i] = c]
    ELSE c

LowerStr(s) == [i \in 1..Len(s) |-> LowerChar(s[i])]
UpperStr(s) == [i \in 1..Len(s) |-> UpperChar(s[i])]

IsSpace(c) == c = " "

RECURSIVE LStrip(_)
LStrip(s) == IF s # << >> /\ IsSpace(Head(s)) THEN LStrip(Tail(s)) ELSE s

RECURSIVE RStrip(_)
RStrip(s) ==
    IF s # << >> /\ IsSpace(s[Len(s)]) THEN RStrip(SubSeq(s, 1, Len(s) - 1)) ELSE s

\* str.strip()
Strip(s) == RStrip(LStrip(s))

\* Python's < on strings: lexicographic by code point, a proper prefix first.
RECURSIVE StrLess(_, _)
StrLess(s, t) ==
    IF t = << >> THEN FALSE
    ELSE IF s = << >> THEN TRUE
    ELSE IF Head(s) # Head(t) THEN CharCode(Head(s)) < CharCode(Head(t))
    ELSE StrLess(Tail(s), Tail(t))

\* Python's < on lists of strings.
RECURSIVE ListLess(_, _)
ListLess(p, q) ==
    IF q = << >> THEN FALSE
    ELSE IF p = << >> THEN TRUE
    ELSE IF Head(p) # Head(q) THEN StrLess(Head(p), Head(q))
    ELSE ListLess(Tail(p), Tail(q))

RECURSIVE Reverse(_)
Reverse(s) == IF s = << >> THEN << >> ELSE Append(Reverse(Tail(s)), Head(s))

SeqToSet(s) == { s[i] : i \in 1..Len(s) }

RECURSIVE Blanks(_)
Blanks(k) == IF k = 0 THEN << >> ELSE << " " >> \o Blanks(k - 1)

\* ------------------------------------------------------------------------
\* The static table (fragment) and the construction of the network
\* ------------------------------------------------------------------------

Nd == << "N", "d" >>
Rc == << "R", "c" >>
Pc == << "P", "c" >>
Cs == << "C", "s" >>
Ub == << "U", "b" >>
Br == << "B", "r" >>
Mh == << "M", "h" >>
Sc == << "S", "c" >>
Ip == << "I", "p" >>
Jp == << "J", "p" >>
Km == << "K", "m" >>
Js == << "J", "s" >>
Kk == << "K", "k" >>
Av == << "A", "v" >>

yellow_line ==
    << << Nd, Rc, 1100 >>, << Rc, Pc, 1300 >>, << Pc, Cs, 900 >>, << Cs, Ub, 300 >> >>

blue_line ==
    << << Rc, Br, 700 >>, << Br, Mh, 1000 >>, << Mh, Sc, 900 >>, << Sc, Ip, 1100 >> >>

blue_line_branch ==
    << << Kk, Av, 1100 >> >>

violet_line ==
    << << Mh, Jp, 1000 >>, << Jp, Cs, 1100 >>, << Cs, Km, 2100 >>, << Km, Js, 1400 >> >>

pink_line ==
    << << Av, Kk, 1200 >> >>

\* The stations of the rows of the table used for station search.
DwarkaSector21 ==
    << "D", "w", "a", "r", "k", "a", " ", "S", "e", "c", "t", "o", "r", " ", "2", "1" >>
DwarkaSector8 ==
    << "D", "w", "a", "r", "k", "a", " ", "S", "e", "c", "t", "o", "r", " ", "8" >>
DwarkaSector9 ==
    << "D", "w", "a", "r", "k", "a", " ", "S", "e", "c", "t", "o", "r", " ", "9" >>
DwarkaSector10 ==
    << "D", "w", "a", "r", "k", "a", " ", "S", "e", "c", "t", "o", "r", " ", "1", "0" >>
DwarkaSector11 ==
    << "D", "w", "a", "r", "k", "a", " ", "S", "e", "c", "t", "o", "r", " ", "1", "1" >>
DwarkaSector12 ==
    << "D", "w", "a", "r", "k", "a", " ", "S", "e", "c", "t", "o", "r", " ", "1", "2" >>
DwarkaSector13 ==
    << "D", "w", "a", "r", "k", "a", " ", "S", "e", "c", "t", "o", "r", " ", "1", "3" >>
DwarkaSector14 ==
    << "D", "w", "a", "r", "k", "a", " ", "S", "e", "c", "t", "o", "r", " ", "1", "4" >>
Dwarka == << "D", "w", "a", "r", "k", "a" >>
DwarkaMor == << "D", "w", "a", "r", "k", "a", " ", "M", "o", "r" >>
Kaushambi == << "K", "a", "u", "s", "h", "a", "m", "b", "i" >>
Vaishali == << "V", "a", "i", "s", "h", "a", "l", "i" >>

\* blue_line, its first nine rows: Dwarka Sector 21 to Dwarka Mor
blue_line_dwarka ==
    << << DwarkaSector21, DwarkaSector8, 2600 >>,
       << DwarkaSector8, DwarkaSector9, 1700 >>,
       << DwarkaSector9, DwarkaSector10, 1000 >>,
       << DwarkaSector10, DwarkaSector11, 1200 >>,
       << DwarkaSector11, DwarkaSector12, 1000 >>,
       << DwarkaSector12, DwarkaSector13, 1100 >>,
       << DwarkaSector13, DwarkaSector14, 1100 >>,
       << DwarkaSector14, Dwarka, 1000 >>,
       << Dwarka, DwarkaMor, 1200 >> >>

\* blue_line_branch, its last row
blue_line_branch_vaishali ==
    << << Kaushambi, Vaishali, 1600 >> >>

\* The rows and the line lists of the network used for station search.
search_lines == blue_line_dwarka \o blue_line_branch_vaishali

\* The first MaxRows rows of a line's list (the whole list when it is shorter).
Rows(line) == SubSeq(line, 1, IF Len(line) < MaxRows THEN Len(line) ELSE MaxRows)

\* all_lines: the lines' rows, concatenated in the order of the source
all_lines ==
    Rows(yellow_line) \o Rows(blue_line) \o Rows(blue_line_branch)
        \o Rows(violet_line) \o Rows(pink_line)

LineNames == << "Yellow", "Blue", "Blue Branch", "Violet", "Pink" >>

LineRows(name) ==
    CASE name = "Yellow" -> Rows(yellow_line)
      [] name = "Blue" -> Rows(blue_line)
      [] name = "Blue Branch" -> Rows(blue_line_branch)
      [] name = "Violet" -> Rows(violet_line)
      [] name = "Pink" -> Rows(pink_line)

\* [station for station1, station2, _ in line for station in [station1, station2]]
RECURSIVE FlattenRows(_)
FlattenRows(rows) ==
    IF rows = << >> THEN << >>
    ELSE << Head(rows)[1], Head(rows)[2] >> \o FlattenRows(Tail(rows))

\* self.lines
BuildLines == [n \in SeqToSet(LineNames) |-> FlattenRows(LineRows(n))]

\* self.lines of the network used for station search
BuildSearchLines ==
    [n \in { "Blue", "Blue Branch" } |->
        FlattenRows(IF n = "Blue" THEN blue_line_dwarka ELSE blue_line_branch_vaishali)]

\* self.stations after the build loop
RECURSIVE BuildStations(_)
BuildStations(rows) ==
    IF rows = << >> THEN {}
    ELSE BuildStations(SubSeq(rows, 1, Len(rows) - 1))
            \cup { rows[Len(rows)][1], rows[Len(rows)][2] }

\* Mutation: a weight already stored for the pair is kept
SetEdgeKeepFirst(g, a, b, d) ==
    LET ga == IF a \in DOMAIN g THEN g[a] ELSE << >>
        gaNew == [n \in (DOMAIN ga) \cup {b} |->
                    IF n \in DOMAIN ga THEN ga[n] ELSE d]
    IN  [s \in (DOMAIN g) \cup {a} |-> IF s = a THEN gaNew ELSE g[s]]

\* graph[a][b] = d on a dict of dicts (a new key or an overwrite)
SetEdge(g, a, b, d) ==
    LET ga == IF a \in DOMAIN g THEN g[a] ELSE << >>
        gaNew == [n \in (DOMAIN ga) \cup {b} |-> IF n = b THEN d ELSE ga[n]]
    IN  [s \in (DOMAIN g) \cup {a} |-> IF s = a THEN gaNew ELSE g[s]]

\* Mutation: only the direction the row is written in is stored
AddRowOneWay(g, row) == SetEdge(g, row[1], row[2], row[3])

\* One pass of the build loop: both directions of one row.
AddRow(g, row) == SetEdge(SetEdge(g, row[1], row[2], row[3]), row[2], row[1], row[3])

\* self.graph after the build loop (rows applied first to last)
RECURSIVE BuildGraph(_)
BuildGraph(rows) ==
    IF rows = << >> THEN << >>
    ELSE AddRow(BuildGraph(SubSeq(rows, 1, Len(rows) - 1)), rows[Len(rows)])

\* The lines of one station, in the order the line names are visited.
RECURSIVE LinesOfStation(_, _, _)
LinesOfStation(station, lns, names) ==
    IF names = << >> THEN << >>
    ELSE (IF station \in SeqToSet(lns[Head(names)]) THEN << Head(names) >> ELSE << >>)
            \o LinesOfStation(station, lns, Tail(names))

\* self.station_lines
BuildStationLines(lns) ==
    [s \in UNION { SeqToSet(lns[n]) : n \in DOMAIN lns } |->
        LinesOfStation(s, lns, SelectSeq(LineNames, LAMBDA n : n \in DOMAIN lns))]

\* ------------------------------------------------------------------------
\* Values
\* ------------------------------------------------------------------------

\* A raw argument: None, or a str with its characters.
None == [tag |-> "None", s |-> << >>]
Str(chars) == [tag |-> "str", s |-> chars]

\* Python truthiness of an argument: None and "" are falsy.
Truthy(x) == x.tag = "str" /\ x.s # << >>

\* float("infinity")
Infinity == 1000000000

\* previous[station] = None; `while current:` stops on it
NoStation == << >>

\* The tuple ([], 0, []) every failure path returns.
EmptyResult == [path |-> << >>, distance |-> 0, line_changes |-> << >>, raised |-> "None"]

\* ------------------------------------------------------------------------
\* Pure helpers of MetroGraph
\* ------------------------------------------------------------------------

\* Mutation: the name is stripped but not lowered
normalize_station_name_keep_case(name) ==
    IF name.tag # "str" THEN << >> ELSE Strip(name.s)

\* _normalize_station_name
normalize_station_name(name) ==
    IF name.tag # "str" THEN << >> ELSE LowerStr(Strip(name.s))

\* Mutation: every prefix of a normalized name is a key
get_station_mapping_prefix(sts) ==
    [k \in { SubSeq(normalize_station_name(Str(s)), 1, n) : s \in sts, n \in 0..2 } |->
        CHOOSE s \in sts :
            \E n \in 0..2 : SubSeq(normalize_station_name(Str(s)), 1, n) = k]

\* _get_station_mapping: normalized name -> actual name
get_station_mapping(sts) ==
    [k \in { normalize_station_name(Str(s)) : s \in sts } |->
        CHOOSE s \in sts : normalize_station_name(Str(s)) = k]

\* set(self.station_lines.get(station, []))
StationLineSet(sl, station) ==
    IF station \in DOMAIN sl THEN SeqToSet(sl[station]) ELSE {}

\* round(x, 2) on thousandths: to the nearest multiple of 10, ties to even
Round2(x) ==
    LET q == x \div 10
        r == x % 10
    IN  IF r < 5 THEN 10 * q
        ELSE IF r > 5 THEN 10 * (q + 1)
        ELSE IF q % 2 = 0 THEN 10 * q ELSE 10 * (q + 1)

\* Mutation: the lookup is setdefault(station, []), which stores the default
StationLinesAfterSetDefault(sl, names) ==
    [s \in (DOMAIN sl) \cup names |-> IF s \in DOMAIN sl THEN sl[s] ELSE << >>]

\* self.station_lines after self.station_lines.get(station, []) for each of
\* the names: get() stores nothing
StationLinesAfterGet(sl, names) == sl

\* The loop in which a hop that shares a line leaves current_lines as it was
RECURSIVE IdentifyFromNoNarrowing(_, _, _, _, _)
IdentifyFromNoNarrowing(sl, path, i, current_lines, line_changes) ==
    IF i >= Len(path) THEN line_changes
    ELSE LET station == path[i + 1]
             st_lines == IF station \in DOMAIN sl THEN SeqToSet(sl[station]) ELSE {}
             common_lines == current_lines \cap st_lines
         IN  IF i = 0
             THEN IdentifyFromNoNarrowing(sl, path, i + 1, st_lines, line_changes)
             ELSE IF common_lines = {} /\ current_lines # {} /\ st_lines # {}
             THEN IdentifyFromNoNarrowing(sl, path, i + 1, st_lines,
                    Append(line_changes,
                           [station |-> station, from_lines |-> current_lines,
                            to_lines |-> st_lines, position |-> i]))
             ELSE IdentifyFromNoNarrowing(sl, path, i + 1, current_lines, line_changes)

\* _identify_line_changes, from position i (0-based) on, with the carried
\* current_lines and the events emitted so far
RECURSIVE IdentifyFrom(_, _, _, _, _)
IdentifyFrom(sl, path, i, current_lines, line_changes) ==
    IF i >= Len(path) THEN line_changes
    ELSE LET station == path[i + 1]
             st_lines == StationLineSet(sl, station)
             common_lines == current_lines \cap st_lines
         IN  IF i = 0
             THEN IdentifyFrom(sl, path, i + 1, st_lines, line_changes)
             ELSE IF common_lines = {} /\ current_lines # {} /\ st_lines # {}
             THEN IdentifyFrom(sl, path, i + 1, st_lines,
                    Append(line_changes,
                           [station |-> station, from_lines |-> current_lines,
                            to_lines |-> st_lines, position |-> i]))
             ELSE IF common_lines # {}
             THEN IdentifyFrom(sl, path, i + 1, common_lines, line_changes)
             ELSE IdentifyFrom(sl, path, i + 1, current_lines, line_changes)

\* Mutation: the loop without the narrowing of current_lines
identify_line_changes_no_narrowing(sl, path) ==
    IdentifyFromNoNarrowing(sl, path, 0, {}, << >>)

\* _identify_line_changes
identify_line_changes(sl, path) == IdentifyFrom(sl, path, 0, {}, << >>)

\* ------------------------------------------------------------------------
\* Pieces of find_shortest_path
\* ------------------------------------------------------------------------

\* logger.error(f"Invalid station names: start='{start}', end='{end}'")
LogInvalidNames(s, e) ==
    [level |-> "error", msg |-> "Invalid station names", names |-> << s, e >>]

\* Mutation: the message names the other argument
LogStartNotFoundNamesEnd(s, e) ==
    [level |-> "error", msg |-> "Start station not found", names |-> << e >>]

\* logger.error(f"Start station not found: '{start}'")
LogStartNotFound(s, e) ==
    [level |-> "error", msg |-> "Start station not found", names |-> << s >>]

\* logger.error(f"End station not found: '{end}'")
LogEndNotFound(s, e) ==
    [level |-> "error", msg |-> "End station not found", names |-> << e >>]

\* Mutation: the entries are ordered by decreasing distance
SPLessFarthestFirst(e, f) ==
    \/ e[1] > f[1]
    \/ e[1] = f[1] /\ StrLess(e[2], f[2])

\* Tuple order of the heap entries (distance, station).
SPLess(e, f) ==
    \/ e[1] < f[1]
    \/ e[1] = f[1] /\ StrLess(e[2], f[2])

\* Mutation: list.pop() instead of heapq.heappop, the last entry
SPHeapLast(pq) == CHOOSE e \in pq : \A f \in pq \ {e} : SPLess(f, e)

\* heapq.heappop: the least entry
SPHeapMin(pq) == CHOOSE e \in pq : \A f \in pq \ {e} : SPLess(e, f)

\* Mutation: distances[start] = 0 left out
InitDistancesNoStart(sts, start) == [s \in sts |-> Infinity]

\* distances / previous at the start of the search
InitDistances(sts, start) == [s \in sts |-> IF s = start THEN 0 ELSE Infinity]
InitPrevious(sts) == [s \in sts |-> NoStation]

\* Mutation: new_distance = edge_distance
NewDistanceEdgeOnly(current_dist, edge_distance) == edge_distance

\* new_distance = current_dist + edge_distance
NewDistance(current_dist, edge_distance) == current_dist + edge_distance

\* Mutation: every unvisited neighbour is relaxed, without the comparison
ImprovedUnchecked(g, distances, visited, current, current_dist) ==
    { n \in DOMAIN g[current] : n \notin visited }

\* The neighbours of current whose distance the relaxation improves.
Improved(g, distances, visited, current, current_dist) ==
    { n \in DOMAIN g[current] :
        /\ n \notin visited
        /\ NewDistance(current_dist, g[current][n]) < distances[n] }

\* The backtracking loop: end, previous[end], ... until None
RECURSIVE Backtrack(_, _)
Backtrack(previous, current) ==
    IF current = NoStation THEN << >>
    ELSE << current >> \o Backtrack(previous, previous[current])

\* Mutation: path.reverse() left out
ReconstructPathNoReverse(previous, end) == Backtrack(previous, end)

\* path after path.reverse()
ReconstructPath(previous, end) == Reverse(Backtrack(previous, end))

\* ------------------------------------------------------------------------
\* Pieces of find_route_least_changes
\* ------------------------------------------------------------------------

\* Mutation: the entries are keyed (distance, changes, ...)
LCLessDistanceFirst(e, f) ==
    \/ e.dist < f.dist
    \/ /\ e.dist = f.dist
       /\ \/ e.changes < f.changes
          \/ /\ e.changes = f.changes
             /\ \/ StrLess(e.station, f.station)
                \/ e.station = f.station /\ ListLess(e.path, f.path)

\* Mutation: the entries are keyed (changes, station, path), without distance
LCLessNoDistance(e, f) ==
    \/ e.changes < f.changes
    \/ /\ e.changes = f.changes
       /\ \/ StrLess(e.station, f.station)
          \/ e.station = f.station /\ ListLess(e.path, f.path)

\* Tuple order of the heap entries (changes, distance, station, path, lines);
\* frozensets compare by proper inclusion.
LCLess(e, f) ==
    \/ e.changes < f.changes
    \/ /\ e.changes = f.changes
       /\ \/ e.dist < f.dist
          \/ /\ e.dist = f.dist
             /\ \/ StrLess(e.station, f.station)
                \/ /\ e.station = f.station
                   /\ \/ ListLess(e.path, f.path)
                      \/ /\ e.path = f.path
                         /\ e.lines # f.lines
                         /\ e.lines \subseteq f.lines

LCHeapMin(pq) == CHOOSE e \in pq : \A f \in pq \ {e} : LCLess(e, f)

\* Mutation: the goal test skips the one-station path
IsGoalNotTrivial(popped, end) == popped.station = end /\ Len(popped.path) > 1

\* The goal test on the popped state
IsGoal(popped, end) == popped.station = end

\* The pruning test on the popped state
Pruned(visited, state_key, changes) ==
    state_key \in DOMAIN visited /\ visited[state_key] <= changes

\* Mutation: new_changes = changes + 1 on every hop
NewChangesEveryHop(changes, common_lines) == changes + 1

\* new_changes: changes when the hop shares a line, else changes + 1
NewChanges(changes, common_lines) ==
    IF common_lines # {} THEN changes ELSE changes + 1

\* Mutation: new_path = path + [current]
SuccessorWrongPath(g, sl, e, neighbor) ==
    LET neighbor_lines == StationLineSet(sl, neighbor)
        common_lines == e.lines \cap neighbor_lines
    IN  [changes |-> IF common_lines # {} THEN e.changes ELSE e.changes + 1,
         dist |-> e.dist + g[e.station][neighbor],
         station |-> neighbor,
         path |-> Append(e.path, e.station),
         lines |-> IF common_lines # {} THEN common_lines ELSE neighbor_lines]

\* The state pushed for one edge current -> neighbor
Successor(g, sl, e, neighbor) ==
    LET neighbor_lines == StationLineSet(sl, neighbor)
        common_lines == e.lines \cap neighbor_lines
    IN  [changes |-> NewChanges(e.changes, common_lines),
         dist |-> e.dist + g[e.station][neighbor],
         station |-> neighbor,
         path |-> Append(e.path, neighbor),
         lines |-> IF common_lines # {} THEN common_lines ELSE neighbor_lines]

\* Mutation: a neighbour that shares no line with the carried set is skipped
SuccessorsSameLine(g, sl, e) ==
    { Successor(g, sl, e, n) :
        n \in { m \in DOMAIN g[e.station] :
                    /\ m \notin SeqToSet(e.path)
                    /\ e.lines \cap StationLineSet(sl, m) # {} } }

\* All the states pushed when the popped state is expanded.
Successors(g, sl, e) ==
    { Successor(g, sl, e, n) : n \in { m \in DOMAIN g[e.station] : m \notin SeqToSet(e.path) } }

\* ------------------------------------------------------------------------
\* The two searches as functions of their locals
\* ------------------------------------------------------------------------

SPIdle ==
    [start |-> NoStation, end |-> NoStation, distances |-> << >>, previous |-> << >>,
     pq |-> {}, visited |-> {}]

LCIdle == [start |-> NoStation, end |-> NoStation, pq |-> {}, visited |-> << >>]

\* A validation failure of find_shortest_path: one log record, return [], 0, [].
SPReject(record) ==
    [pc |-> "done", sp |-> SPIdle, result |-> EmptyResult, log |-> << record >>]

\* find_shortest_path up to the loop: validation of the arguments and set-up.
SPSetup(sts, g, s, e) ==
    LET station_map == get_station_mapping(sts)
        start_norm == normalize_station_name(s)
        end_norm == normalize_station_name(e)
    IN  IF ~Truthy(s) \/ ~Truthy(e) THEN SPReject(LogInvalidNames(s, e))
        ELSE IF start_norm \notin DOMAIN station_map THEN SPReject(LogStartNotFound(s, e))
        ELSE IF end_norm \notin DOMAIN station_map THEN SPReject(LogEndNotFound(s, e))
        ELSE IF station_map[start_norm] \notin DOMAIN g
                 \/ station_map[end_norm] \notin DOMAIN g
        THEN SPReject([level |-> "error", msg |-> "Station not in graph",
                       names |-> << Str(station_map[start_norm]),
                                    Str(station_map[end_norm]) >>])
        ELSE [pc |-> "sp_loop",
              sp |-> [start |-> station_map[start_norm],
                      end |-> station_map[end_norm],
                      distances |-> InitDistances(sts, station_map[start_norm]),
                      previous |-> InitPrevious(sts),
                      pq |-> { << 0, station_map[start_norm] >> },
                      visited |-> {}],
              result |-> EmptyResult,
              log |-> << >>]

\* Mutation: the least entry is read and left in the queue
HeapPeek(pq, popped) == pq

\* The queue after heapq.heappop(pq) has removed the least entry
HeapPop(pq, popped) == pq \ {popped}

\* One iteration of `while pq:` of find_shortest_path (pq not empty).
SPStep(g, loc) ==
    LET popped == SPHeapMin(loc.pq)
        current_dist == popped[1]
        current == popped[2]
        rest == HeapPop(loc.pq, popped)
    IN  IF current \in loc.visited
        THEN [pc |-> "sp_loop", sp |-> [loc EXCEPT !.pq = rest]]
        ELSE IF current = loc.end
        THEN [pc |-> "sp_after",
              sp |-> [loc EXCEPT !.pq = rest, !.visited = @ \cup {current}]]
        ELSE IF current_dist > loc.distances[current]
        THEN [pc |-> "sp_loop",
              sp |-> [loc EXCEPT !.pq = rest, !.visited = @ \cup {current}]]
        ELSE LET better == Improved(g, loc.distances, loc.visited \cup {current},
                                    current, current_dist)
             IN  [pc |-> "sp_loop",
                  sp |-> [loc EXCEPT
                            !.visited = @ \cup {current},
                            !.distances = [n \in DOMAIN @ |->
                                IF n \in better
                                THEN NewDistance(current_dist, g[current][n])
                                ELSE @[n]],
                            !.previous = [n \in DOMAIN @ |->
                                IF n \in better THEN current ELSE @[n]],
                            !.pq = rest \cup
                                { << NewDistance(current_dist, g[current][n]), n >> :
                                    n \in better }]]

\* Mutation: the test is distances[end] > infinity
NoPathFoundStrict(distances, end) == distances[end] > Infinity

\* if distances[end] == float("infinity")
NoPathFound(distances, end) == distances[end] = Infinity

\* find_shortest_path after the loop: the returned tuple and the log record.
SPResult(sl, loc) ==
    IF NoPathFound(loc.distances, loc.end)
    THEN [result |-> EmptyResult,
          logged |-> [level |-> "warning", msg |-> "No path found",
                      names |-> << Str(loc.start), Str(loc.end) >>]]
    ELSE LET path == ReconstructPath(loc.previous, loc.end)
         IN  [result |-> [path |-> path,
                          distance |-> Round2(loc.distances[loc.end]),
                          line_changes |-> identify_line_changes(sl, path),
                          raised |-> "None"],
              logged |-> [level |-> "info", msg |-> "Route found", names |-> << >>]]

\* The loop of find_shortest_path, run until it ends.
RECURSIVE SPRun(_, _)
SPRun(g, st) ==
    IF st.pc = "sp_loop" /\ st.sp.pq # {} THEN SPRun(g, SPStep(g, st.sp)) ELSE st

\* find_shortest_path(s, e) on a network, as one value
find_shortest_path(sts, g, sl, s, e) ==
    LET st == SPSetup(sts, g, s, e)
    IN  IF st.pc = "done" THEN st.result
        ELSE SPResult(sl, SPRun(g, [pc |-> st.pc, sp |-> st.sp]).sp).result

\* find_route_least_changes up to the loop.
LCSetup(sts, sl, s, e) ==
    LET station_map == get_station_mapping(sts)
        start_norm == normalize_station_name(s)
        end_norm == normalize_station_name(e)
    IN  IF ~Truthy(s) \/ ~Truthy(e)
        THEN [pc |-> "done", lc |-> LCIdle]
        ELSE IF start_norm \notin DOMAIN station_map \/ end_norm \notin DOMAIN station_map
        THEN [pc |-> "done", lc |-> LCIdle]
        ELSE [pc |-> "lc_loop",
              lc |-> [start |-> station_map[start_norm],
                      end |-> station_map[end_norm],
                      pq |-> { [changes |-> 0, dist |-> 0,
                                station |-> station_map[start_norm],
                                path |-> << station_map[start_norm] >>,
                                lines |-> StationLineSet(sl, station_map[start_norm])] },
                      visited |-> << >>]]

\* One iteration of `while pq:` of find_route_least_changes (pq not empty).
LCStep(g, sl, loc) ==
    LET popped == LCHeapMin(loc.pq)
        rest == HeapPop(loc.pq, popped)
        state_key == << popped.station, popped.lines >>
    IN  IF IsGoal(popped, loc.end)
        THEN [pc |-> "done",
              lc |-> [loc EXCEPT !.pq = rest],
              result |-> [path |-> popped.path,
                          distance |-> Round2(popped.dist),
                          line_changes |-> identify_line_changes(sl, popped.path),
                          raised |-> "None"]]
        ELSE IF Pruned(loc.visited, state_key, popped.changes)
        THEN [pc |-> "lc_loop", lc |-> [loc EXCEPT !.pq = rest], result |-> EmptyResult]
        ELSE [pc |-> "lc_loop",
              lc |-> [loc EXCEPT
                        !.visited = [k \in (DOMAIN @) \cup {state_key} |->
                            IF k = state_key THEN popped.changes ELSE @[k]],
                        !.pq = rest \cup Successors(g, sl, popped)],
              result |-> EmptyResult]

\* The loop of find_route_least_changes, run until it returns.
RECURSIVE LCRun(_, _, _)
LCRun(g, sl, st) ==
    IF st.pc = "lc_loop" /\ st.lc.pq # {} THEN LCRun(g, sl, LCStep(g, sl, st.lc)) ELSE st

\* find_route_least_changes(s, e) on a network, as one value
find_route_least_changes(sts, g, sl, s, e) ==
    LET st == LCSetup(sts, sl, s, e)
    IN  IF st.pc = "done" THEN EmptyResult
        ELSE LCRun(g, sl, [pc |-> st.pc, lc |-> st.lc, result |-> EmptyResult]).result

\* The records find_shortest_path(s, e) logs.
find_shortest_path_log(sts, g, sl, s, e) ==
    LET st == SPSetup(sts, g, s, e)
    IN  IF st.pc = "done" THEN st.log
        ELSE << SPResult(sl, SPRun(g, [pc |-> st.pc, sp |-> st.sp]).sp).logged >>

\* RouteResult(path, distance, line_changes, route_type) of a search result
RouteResult(found, route_type) ==
    [path |-> found.path, distance |-> found.distance,
     line_changes |-> found.line_changes, route_type |-> route_type]

\* Mutation: the least-changes route is appended although it is the shortest
find_all_routes_no_comparison(sts, g, sl, s, e) ==
    LET first == find_shortest_path(sts, g, sl, s, e)
        second == find_route_least_changes(sts, g, sl, s, e)
    IN  (IF first.path # << >> THEN << RouteResult(first, "shortest") >> ELSE << >>)
            \o (IF second.path # << >>
                THEN << RouteResult(second, "least_changes") >> ELSE << >>)

\* find_all_routes
find_all_routes(sts, g, sl, s, e) ==
    LET first == find_shortest_path(sts, g, sl, s, e)
        second == find_route_least_changes(sts, g, sl, s, e)
    IN  (IF first.path # << >> THEN << RouteResult(first, "shortest") >> ELSE << >>)
            \o (IF second.path # << >> /\ second.path # first.path
                THEN << RouteResult(second, "least_changes") >> ELSE << >>)

\* ------------------------------------------------------------------------
\* The other operations of MetroGraph
\* ------------------------------------------------------------------------

\* sorted() on a collection of distinct strings
RECURSIVE sorted(_)
sorted(S) ==
    IF S = {} THEN << >>
    ELSE LET least == CHOOSE x \in S : \A y \in S \ {x} : StrLess(x, y)
         IN  << least >> \o sorted(S \ {least})

\* Mutation: the test is len(lines) > 0
get_interchange_stations_one_line(sl) ==
    sorted({ s \in DOMAIN sl : Len(sl[s]) > 0 })

\* get_interchange_stations
get_interchange_stations(sl) ==
    sorted({ s \in DOMAIN sl : Len(sl[s]) > 1 })

\* Mutation: the upper limit of every tier is exclusive
TokenFareExclusive(distance) ==
    IF distance < 2000 THEN 10
    ELSE IF distance < 5000 THEN 20
    ELSE IF distance < 12000 THEN 30
    ELSE IF distance < 21000 THEN 40
    ELSE IF distance < 32000 THEN 50
    ELSE 60

\* The if/elif chain of calculate_fare; distances in thousandths of a km
TokenFare(distance) ==
    IF distance <= 2000 THEN 10
    ELSE IF distance <= 5000 THEN 20
    ELSE IF distance <= 12000 THEN 30
    ELSE IF distance <= 21000 THEN 40
    ELSE IF distance <= 32000 THEN 50
    ELSE 60

\* int(token_fare * 0.9): the float product of each of the six token fares
\* is the exact 9, 18, 27, 36, 45, 54, and int() truncates it
SmartCardFare(token_fare) == (token_fare * 9) \div 10

\* Mutation: the two branches of the conditional are exchanged
RecommendedFareSwapped(token_fare, smart_card_fare, use_smart_card) ==
    IF use_smart_card THEN token_fare ELSE smart_card_fare

\* smart_card_fare if use_smart_card else token_fare
RecommendedFare(token_fare, smart_card_fare, use_smart_card) ==
    IF use_smart_card THEN smart_card_fare ELSE token_fare

\* calculate_fare
calculate_fare(distance, use_smart_card) ==
    LET token_fare == TokenFare(distance)
        smart_card_fare == SmartCardFare(token_fare)
    IN  [token_fare |-> token_fare,
         smart_card_fare |-> smart_card_fare,
         savings |-> token_fare - smart_card_fare,
         recommended_fare |-> RecommendedFare(token_fare, smart_card_fare, use_smart_card)]

\* round() of a number of halves: to the nearest integer, ties to even
RoundHalves(halves) ==
    LET q == halves \div 2
    IN  IF halves % 2 = 0 THEN q
        ELSE IF q % 2 = 0 THEN q ELSE q + 1

\* Mutation: 2 minutes per station
TravelTimeHalvesTwoPerStation(path, line_changes) ==
    4 * Len(path) + 6 * Len(line_changes)

\* len(path) * 2.5 + len(line_changes) * 3, in halves of a minute
TravelTimeHalves(path, line_changes) == 5 * Len(path) + 6 * Len(line_changes)

\* Mutation: the summary of an empty path carries zero values with the error
NoRouteSummaryZeros ==
    [error |-> "No route available", stations_count |-> 0, distance_km |-> 0,
     estimated_time_min |-> 0, line_changes_count |-> 0]

\* {"error": "No route available"}
NoRouteSummary == [error |-> "No route available"]

\* get_route_summary
get_route_summary(path, distance, line_changes) ==
    IF path = << >> THEN NoRouteSummary
    ELSE [start |-> path[1],
          end |-> path[Len(path)],
          stations_count |-> Len(path),
          distance_km |-> distance,
          estimated_time_min |-> RoundHalves(TravelTimeHalves(path, line_changes)),
          line_changes_count |-> Len(line_changes),
          fare |-> calculate_fare(distance, FALSE)]

\* query_lower in s.lower()
Contains(s, q) ==
    \E i \in 1..(Len(s) - Len(q) + 1) : SubSeq(s, i, i + Len(q) - 1) = q

\* s.lower().startswith(query_lower)
StartsWith(s, q) == Len(q) <= Len(s) /\ SubSeq(s, 1, Len(q)) = q

\* Mutation: the sort key is the name alone
SortKeyNameOnly(query_lower, a, b) == StrLess(a, b)

\* < on the sort keys (not s.lower().startswith(query_lower), s) of a and b
SortKeyLess(query_lower, a, b) ==
    LET after_a == ~StartsWith(LowerStr(a), query_lower)
        after_b == ~StartsWith(LowerStr(b), query_lower)
    IN  \/ ~after_a /\ after_b
        \/ after_a = after_b /\ StrLess(a, b)

\* matches.sort(key=...) on distinct names
RECURSIVE SortMatches(_, _)
SortMatches(query_lower, matches) ==
    IF matches = {} THEN << >>
    ELSE LET least == CHOOSE x \in matches :
                        \A y \in matches \ {x} : SortKeyLess(query_lower, x, y)
         IN  << least >> \o SortMatches(query_lower, matches \ {least})

\* search_stations
search_stations(sts, query) ==
    IF ~Truthy(query) \/ Len(query.s) < 2 THEN << >>
    ELSE LET query_lower == LowerStr(query.s)
             matches == { s \in sts : Contains(LowerStr(s), query_lower) }
             ordered == SortMatches(query_lower, matches)
         IN  SubSeq(ordered, 1, IF Len(ordered) < 10 THEN Len(ordered) ELSE 10)

\* ------------------------------------------------------------------------
\* State
\* ------------------------------------------------------------------------

VARIABLES
    graph,          \* self.graph: station -> (neighbour -> distance)
    stations,       \* self.stations
    station_lines,  \* self.station_lines: station -> list of line names
    lines,          \* self.lines: line name -> list of stations
    pc,             \* position of the running call: idle, sp_loop, sp_after, lc_loop, done
    op,             \* the operation called
    args,           \* the arguments of a call that is not a route search
    start,          \* its raw first argument
    end,            \* its raw second argument
    sp,             \* locals of find_shortest_path
    lc,             \* locals of find_route_least_changes
    result,         \* the value returned to the caller
    log,            \* the records the call has logged
    request_counts, \* app.py request_counts: key -> requests counted
    handling,       \* per worker thread: position in decorated_function, its locals
    minute,         \* the clock minute datetime.now() shows
    entered,        \* key -> requests passed on to the handler
    refused,        \* key -> requests answered 429
    overlaps,       \* requests taken while another one was being handled
    api_key,        \* DMRCApi.api_key
    cache,          \* DMRCApi.cache: cache key -> response
    cache_expiry,   \* DMRCApi.cache_expiry: cache key -> expiry timestamp
    now,            \* the clock in seconds datetime.now().timestamp() shows
    request,        \* the _make_request call in progress and its locals
    succeeded       \* cache key -> time and response of its last successful request

vars ==
    << graph, stations, station_lines, lines, pc, op, args, start, end, sp, lc, result,
       log, request_counts, handling, minute, entered, refused, overlaps, api_key, cache,
       cache_expiry, now, request, succeeded >>

network == << graph, stations, station_lines, lines >>

metro == << network, pc, op, args, start, end, sp, lc, result, log >>

limiter == << request_counts, handling, minute, entered, refused, overlaps >>

api == << api_key, cache, cache_expiry, now, request, succeeded >>

\* The raw arguments the callers pass: None, "", blanks, a name of no station,
\* every station name as written, and in upper case between blanks.
RawNames(station) ==
    { Str(station) }
        \cup { Str(Blanks(k) \o UpperStr(station) \o Blanks(k)) : k \in 1..MaxPad }

BlankInputs == { Str(Blanks(k)) : k \in 1..MaxPad }

UnknownInputs == { Str(<< "Z", "z" >>) }

RawInputs ==
    { None, Str(<< >>) } \cup BlankInputs \cup UnknownInputs
        \cup UNION { RawNames(s) : s \in BuildStations(all_lines) }

\* ------------------------------------------------------------------------
\* app.py: the rate limiter; dmrc_api.py: the response cache
\* ------------------------------------------------------------------------

\* d.get(k, default)
DictGet(d, k, default) == IF k \in DOMAIN d THEN d[k] ELSE default

\* d[k] = v
DictSet(d, k, v) == [x \in (DOMAIN d) \cup {k} |-> IF x = k THEN v ELSE d[x]]

RATE_LIMIT == 60

\* Requests sent beyond RATE_LIMIT by one client in one minute, requests sent
\* by another client or in another minute, minutes the clock moves on, and
\* requests taken while another one is being handled.
MaxOver == 2
MaxOther == 1
MaxMinute == 1
MaxOverlaps == 2

\* The threads in which the server handles requests.
Workers == { "w1", "w2" }

Clients == { "a", "b" }

\* f"{client_ip}:{current_minute}"
RateKey(client_ip, current_minute) == << client_ip, current_minute >>

WorkerIdle == [pc |-> "idle", key |-> << >>, count |-> 0]

cache_duration == 3600

\* Hours the clock moves on.
MaxHours == 1

\* The instants the clock shows: one second before each full cache duration,
\* and the full durations.
Times ==
    { k * cache_duration - d : k \in 0..MaxHours, d \in 0..1 } \cap Nat

DummyKey == "dummy_api_key_for_testing"

\* os.getenv('DMRC_API_KEY'): not set, the testing key, a key of the service
ApiKeys == { "None", DummyKey, "live" }

\* No successful request so far.
NoSuccess == [known |-> FALSE, at |-> 0, response |-> None]

RequestIdle ==
    [pc |-> "idle", endpoint |-> "", cache_key |-> << >>, method |-> "",
     current_time |-> 0, issued |-> FALSE, failed |-> FALSE, returned |-> None,
     prior |-> NoSuccess, before |-> << >>]

\* __init__ followed by _initialize_metro_network
Init ==
    /\ graph = BuildGraph(all_lines)
    /\ stations = BuildStations(all_lines)
    /\ lines = BuildLines
    /\ station_lines = BuildStationLines(BuildLines)
    /\ pc = "idle"
    /\ op = "none"
    /\ args = << >>
    /\ start = None
    /\ end = None
    /\ sp = SPIdle
    /\ lc = LCIdle
    /\ result = EmptyResult
    /\ log = << >>
    /\ request_counts = << >>
    /\ handling = [w \in Workers |-> WorkerIdle]
    /\ minute = 0
    /\ entered = << >>
    /\ refused = << >>
    /\ overlaps = 0
    /\ api_key = "None"
    /\ cache = << >>
    /\ cache_expiry = << >>
    /\ now = 0
    /\ request = [RequestIdle EXCEPT !.pc = "unbuilt"]
    /\ succeeded = << >>

\* ------------------------------------------------------------------------
\* find_shortest_path
\* ------------------------------------------------------------------------

\* The call, its validation of the arguments and the set-up of the search.
FindShortestPath ==
    /\ pc = "idle"
    /\ \E s \in RawInputs, e \in RawInputs :
          LET st == SPSetup(stations, graph, s, e)
          IN  /\ start' = s
              /\ end' = e
              /\ pc' = st.pc
              /\ sp' = st.sp
              /\ result' = st.result
              /\ log' = st.log
    /\ op' = "find_shortest_path"
    /\ args' = << >>
    /\ lc' = LCIdle
    /\ UNCHANGED network
    /\ UNCHANGED << limiter, api >>

\* One iteration of `while pq:`.
SPIterate ==
    /\ pc = "sp_loop"
    /\ sp.pq # {}
    /\ LET st == SPStep(graph, sp)
       IN  /\ pc' = st.pc
           /\ sp' = st.sp
    /\ UNCHANGED << network, op, args, start, end, lc, result, log >>
    /\ UNCHANGED << limiter, api >>

\* After the loop (queue empty, or break at the destination): the result.
SPFinish ==
    /\ \/ pc = "sp_after"
       \/ pc = "sp_loop" /\ sp.pq = {}
    /\ LET out == SPResult(station_lines, sp)
       IN  /\ result' = out.result
           /\ log' = Append(log, out.logged)
    /\ pc' = "done"
    /\ UNCHANGED << network, op, args, start, end, sp, lc >>
    /\ UNCHANGED << limiter, api >>

\* ------------------------------------------------------------------------
\* find_route_least_changes
\* ------------------------------------------------------------------------

\* The call, its validation of the arguments and the first queue entry.
FindRouteLeastChanges ==
    /\ pc = "idle"
    /\ \E s \in RawInputs, e \in RawInputs :
          LET st == LCSetup(stations, station_lines, s, e)
          IN  /\ start' = s
              /\ end' = e
              /\ pc' = st.pc
              /\ lc' = st.lc
    /\ op' = "find_route_least_changes"
    /\ args' = << >>
    /\ sp' = SPIdle
    /\ log' = << >>
    /\ result' = EmptyResult
    /\ UNCHANGED network
    /\ UNCHANGED << limiter, api >>

\* One iteration of `while pq:`.
LCIterate ==
    /\ pc = "lc_loop"
    /\ lc.pq # {}
    /\ LET st == LCStep(graph, station_lines, lc)
       IN  /\ pc' = st.pc
           /\ lc' = st.lc
           /\ result' = st.result
    /\ UNCHANGED << network, op, args, start, end, sp, log >>
    /\ UNCHANGED << limiter, api >>

\* The queue ran empty: return [], 0, [].
LCExhausted ==
    /\ pc = "lc_loop"
    /\ lc.pq = {}
    /\ result' = EmptyResult
    /\ pc' = "done"
    /\ UNCHANGED << network, op, args, start, end, sp, lc, log >>
    /\ UNCHANGED << limiter, api >>

\* ------------------------------------------------------------------------
\* find_all_routes
\* ------------------------------------------------------------------------

\* The call: both searches run to their end, one after the other, and the
\* list of routes is returned.
FindAllRoutes ==
    /\ pc = "idle"
    /\ \E s \in RawInputs, e \in RawInputs :
          /\ start' = s
          /\ end' = e
          /\ result' = find_all_routes(stations, graph, station_lines, s, e)
          /\ log' = find_shortest_path_log(stations, graph, station_lines, s, e)
    /\ op' = "find_all_routes"
    /\ args' = << >>
    /\ pc' = "done"
    /\ UNCHANGED << network, sp, lc >>
    /\ UNCHANGED << limiter, api >>

\* ------------------------------------------------------------------------
\* The operations that return at once
\* ------------------------------------------------------------------------

\* The paths handed to _identify_line_changes and get_route_summary: up to
\* MaxPathLen names, each a station or the name of no station.
RECURSIVE PathsOfLen(_, _)
PathsOfLen(names, n) ==
    IF n = 0 THEN { << >> }
    ELSE { Append(p, x) : p \in PathsOfLen(names, n - 1), x \in names }

PathInputs ==
    UNION { PathsOfLen(BuildStations(all_lines) \cup { << "Z", "z" >> }, n) :
                n \in 0..MaxPathLen }

\* A call of _identify_line_changes on one of the paths.
IdentifyLineChanges ==
    /\ pc = "idle"
    /\ \E path \in PathInputs :
          /\ args' = << path >>
          /\ result' = identify_line_changes(station_lines, path)
          /\ station_lines' = StationLinesAfterGet(station_lines, SeqToSet(path))
    /\ op' = "_identify_line_changes"
    /\ pc' = "done"
    /\ UNCHANGED << graph, stations, lines, start, end, sp, lc, log >>
    /\ UNCHANGED << limiter, api >>

\* The tier limits of the fare table, in thousandths of a km.
FareLimits == { 2000, 5000, 12000, 21000, 32000 }

\* The distances handed to calculate_fare: 0, the distances within MaxFareGap
\* thousandths of a tier limit, and a tenth of a km above each limit.
FareDistances ==
    { 0 } \cup UNION { (b - MaxFareGap)..(b + MaxFareGap) : b \in FareLimits }
        \cup { b + 100 : b \in FareLimits }

\* A call of calculate_fare on one of the distances, with or without the flag.
CalculateFare ==
    /\ pc = "idle"
    /\ \E distance \in FareDistances, use_smart_card \in BOOLEAN :
          /\ args' = << distance, use_smart_card >>
          /\ result' = calculate_fare(distance, use_smart_card)
    /\ op' = "calculate_fare"
    /\ pc' = "done"
    /\ UNCHANGED << network, start, end, sp, lc, log >>
    /\ UNCHANGED << limiter, api >>

\* The paths handed to get_route_summary: the empty path and the paths of
\* PathInputs whose consecutive stations are neighbours in the graph.
SummaryPaths ==
    { p \in PathInputs :
        \A i \in 1..(Len(p) - 1) :
            p[i] \in DOMAIN graph /\ p[i + 1] \in DOMAIN graph[p[i]] }

\* The distances handed to get_route_summary.
SummaryDistances == { 0 } \cup FareLimits \cup { b + 100 : b \in FareLimits }

\* The lists of line changes handed to get_route_summary.
ChangeInputs ==
    { [k \in 1..n |-> [station |-> << "R", "c" >>, from_lines |-> { "Yellow" },
                       to_lines |-> { "Blue" }, position |-> k]] :
        n \in 0..MaxChanges }

\* A call of get_route_summary on a path, a distance and a list of changes.
GetRouteSummary ==
    /\ pc = "idle"
    /\ \E path \in SummaryPaths, distance \in SummaryDistances,
          line_changes \in ChangeInputs :
          /\ args' = << path, distance, line_changes >>
          /\ result' = get_route_summary(path, distance, line_changes)
    /\ op' = "get_route_summary"
    /\ pc' = "done"
    /\ UNCHANGED << network, start, end, sp, lc, log >>
    /\ UNCHANGED << limiter, api >>

\* The characters of the queries handed to search_stations.
QueryChars == { "A", "K", "a", "d", "k", "r", "w" }

\* The queries: None and every string of up to MaxQueryLen of the characters.
QueryInputs ==
    { None } \cup { Str(q) : q \in UNION { PathsOfLen(QueryChars, n) : n \in 0..MaxQueryLen } }

\* A call of search_stations on one of the queries.
SearchStations ==
    /\ pc = "idle"
    /\ \E query \in QueryInputs :
          /\ args' = << query >>
          /\ result' = search_stations(stations, query)
    /\ op' = "search_stations"
    /\ pc' = "done"
    /\ UNCHANGED << network, start, end, sp, lc, log >>
    /\ UNCHANGED << limiter, api >>

\* A call of get_interchange_stations.
GetInterchangeStations ==
    /\ pc = "idle"
    /\ op' = "get_interchange_stations"
    /\ args' = << >>
    /\ result' = get_interchange_stations(station_lines)
    /\ pc' = "done"
    /\ UNCHANGED << network, start, end, sp, lc, log >>
    /\ UNCHANGED << limiter, api >>

\* ------------------------------------------------------------------------
\* The caller
\* ------------------------------------------------------------------------

\* The caller has the result; the locals of the call are gone.
Return ==
    /\ pc = "done"
    /\ pc' = "idle"
    /\ op' = "none"
    /\ args' = << >>
    /\ start' = None
    /\ end' = None
    /\ sp' = SPIdle
    /\ lc' = LCIdle
    /\ result' = EmptyResult
    /\ log' = << >>
    /\ UNCHANGED network
    /\ UNCHANGED << limiter, api >>

Next ==
    \/ FindShortestPath
    \/ SPIterate
    \/ SPFinish
    \/ FindRouteLeastChanges
    \/ LCIterate
    \/ LCExhausted
    \/ FindAllRoutes
    \/ SearchStations
    \/ GetInterchangeStations
    \/ IdentifyLineChanges
    \/ CalculateFare
    \/ GetRouteSummary
    \/ Return

Spec == Init /\ [][Next]_vars

\* The two searches alone.
SearchesNext ==
    \/ FindShortestPath
    \/ SPIterate
    \/ SPFinish
    \/ FindRouteLeastChanges
    \/ LCIterate
    \/ LCExhausted
    \/ Return

\* A search runs synchronously inside its call: once started, its next step
\* is taken whenever there is one.
SearchesFair ==
    /\ WF_vars(SPIterate)
    /\ WF_vars(SPFinish)
    /\ WF_vars(LCIterate)
    /\ WF_vars(LCExhausted)

SearchesSpec == Init /\ [][SearchesNext]_vars /\ SearchesFair

\* __init__ followed by _initialize_metro_network, on the rows used for
\* station search
SearchInit ==
    /\ graph = BuildGraph(search_lines)
    /\ stations = BuildStations(search_lines)
    /\ lines = BuildSearchLines
    /\ station_lines = BuildStationLines(BuildSearchLines)
    /\ pc = "idle"
    /\ op = "none"
    /\ args = << >>
    /\ start = None
    /\ end = None
    /\ sp = SPIdle
    /\ lc = LCIdle
    /\ result = EmptyResult
    /\ log = << >>
    /\ request_counts = << >>
    /\ handling = [w \in Workers |-> WorkerIdle]
    /\ minute = 0
    /\ entered = << >>
    /\ refused = << >>
    /\ overlaps = 0
    /\ api_key = "None"
    /\ cache = << >>
    /\ cache_expiry = << >>
    /\ now = 0
    /\ request = [RequestIdle EXCEPT !.pc = "unbuilt"]
    /\ succeeded = << >>

SearchNext ==
    \/ SearchStations
    \/ Return

\* Station search on a network of stations with longer names.
SearchSpec == SearchInit /\ [][SearchNext]_vars

\* ------------------------------------------------------------------------
\* app.py: rate_limit
\* ------------------------------------------------------------------------

\* The key the requests beyond RATE_LIMIT are sent with.
WatchedKey == RateKey("a", 0)

\* Requests with the given keys the server has answered, by the counts in d.
Answered(d, keys) ==
    LET sum[S \in SUBSET (keys \cap DOMAIN d)] ==
            IF S = { } THEN 0
            ELSE LET k == CHOOSE x \in S : TRUE IN d[k] + sum[S \ {k}]
    IN  sum[keys \cap DOMAIN d]

\* Requests with the given keys the server has received so far.
Received(keys) ==
    Answered(entered, keys) + Answered(refused, keys)
        + Cardinality({ w \in Workers : handling[w].pc # "idle" /\ handling[w].key \in keys })

\* The keys of the other clients and the other minutes.
OtherKeys == { RateKey(c, m) : c \in Clients, m \in 0..MaxMinute } \ { WatchedKey }

\* A request with the key may still be sent.
WithinBudget(key) ==
    IF key = WatchedKey THEN Received({ WatchedKey }) < RATE_LIMIT + MaxOver
    ELSE Received(OtherKeys) < MaxOther

\* The other worker threads are handling a request.
Busy(w) == \E v \in Workers \ {w} : handling[v].pc # "idle"

\* decorated_function up to the key: a worker thread takes a request and
\* builds its key from the address and the minute the clock shows.
Receive ==
    /\ \E w \in Workers, client \in Clients :
        /\ handling[w].pc = "idle"
        /\ WithinBudget(RateKey(client, minute))
        /\ Busy(w) => overlaps < MaxOverlaps
        /\ overlaps' = IF Busy(w) THEN overlaps + 1 ELSE overlaps
        /\ handling' = [handling EXCEPT ![w] =
                            [pc |-> "key", key |-> RateKey(client, minute),
                             count |-> 0]]
    /\ UNCHANGED << request_counts, minute, entered, refused >>
    /\ UNCHANGED << metro, api >>

\* request_counts.get(key, 0) + 1, the value about to be stored (line 30)
Load ==
    /\ \E w \in Workers :
        /\ handling[w].pc = "key"
        /\ handling' = [handling EXCEPT ![w].pc = "loaded",
                            ![w].count = DictGet(request_counts, handling[w].key, 0) + 1]
    /\ UNCHANGED << request_counts, minute, entered, refused >>
    /\ UNCHANGED << overlaps, metro, api >>

\* request_counts[key] = the value computed
Store ==
    /\ \E w \in Workers :
        /\ handling[w].pc = "loaded"
        /\ request_counts' = DictSet(request_counts, handling[w].key, handling[w].count)
        /\ handling' = [handling EXCEPT ![w].pc = "stored"]
    /\ UNCHANGED << minute, entered, refused >>
    /\ UNCHANGED << overlaps, metro, api >>

\* if request_counts[key] > RATE_LIMIT
OverLimit(counts, key) == counts[key] > RATE_LIMIT

\* The comparison with RATE_LIMIT: the request is answered 429, or passed on
\* to the handler.
Check ==
    /\ \E w \in Workers :
        /\ handling[w].pc = "stored"
        /\ IF OverLimit(request_counts, handling[w].key)
           THEN /\ refused' = DictSet(refused, handling[w].key,
                                      DictGet(refused, handling[w].key, 0) + 1)
                /\ UNCHANGED entered
           ELSE /\ entered' = DictSet(entered, handling[w].key,
                                      DictGet(entered, handling[w].key, 0) + 1)
                /\ UNCHANGED refused
        /\ handling' = [handling EXCEPT ![w] = WorkerIdle]
    /\ UNCHANGED << request_counts, minute >>
    /\ UNCHANGED << overlaps, metro, api >>

\* The clock reaches the next minute.
NextMinute ==
    /\ minute < MaxMinute
    /\ minute' = minute + 1
    /\ UNCHANGED << request_counts, handling, entered, refused >>
    /\ UNCHANGED << overlaps, metro, api >>

RateNext ==
    \/ Receive
    \/ Load
    \/ Store
    \/ Check
    \/ NextMinute

\* The rate limiter with requests handled in concurrent threads.
RateSpec == Init /\ [][RateNext]_vars

\* ------------------------------------------------------------------------
\* dmrc_api.py: DMRCApi._make_request
\* ------------------------------------------------------------------------

NoDict == [tag |-> "None", s |-> << >>]

Dict(items) == [tag |-> "dict", s |-> items]

\* Python truthiness of params and data: None and {} are falsy.
TruthyDict(x) == x.tag = "dict" /\ x.s # << >>

\* json.dumps of a dict, as the sequence of its keys and values
JsonDumps(x) == x.s

\* f"{endpoint}_{json.dumps(params) if params else ''}_{json.dumps(data) if data else ''}"
CacheKey(endpoint, params, data) ==
    << endpoint,
       IF TruthyDict(params) THEN JsonDumps(params) ELSE << >>,
       IF TruthyDict(data) THEN JsonDumps(data) ELSE << >> >>

\* The requests the methods of DMRCApi make: the station list, with no
\* parameters and with an empty dict of parameters, and a route query.
ApiCalls ==
    { [endpoint |-> "stations", method |-> "GET", params |-> NoDict, data |-> NoDict],
      [endpoint |-> "stations", method |-> "GET", params |-> Dict(<< >>), data |-> NoDict],
      [endpoint |-> "routes/find", method |-> "POST", params |-> NoDict,
       data |-> Dict(<< "source", "Rc", "destination", "Mh" >>)] }

\* response.json()
Responses == { [tag |-> "json", s |-> << "r1" >>], [tag |-> "json", s |-> << "r2" >>] }

\* _get_mock_response
MockResponse(endpoint) == [tag |-> "mock", s |-> << endpoint >>]

\* __init__: the key comes from the environment, the cache starts empty.
DMRCApiInit ==
    /\ request.pc = "unbuilt"
    /\ api_key' \in ApiKeys
    /\ cache' = << >>
    /\ cache_expiry' = << >>
    /\ request' = RequestIdle
    /\ UNCHANGED << now, succeeded >>
    /\ UNCHANGED << metro, limiter >>

FreshInclusive(expiry, current_time) == expiry >= current_time

\* self.cache_expiry.get(cache_key, 0) > current_time
Fresh(expiry, current_time) == expiry > current_time

\* _make_request up to the network call: a stored response that has not
\* expired is returned, in mock mode a simulated response is returned, and
\* otherwise the request is sent.
MakeRequest ==
    /\ request.pc = "idle"
    /\ \E c \in ApiCalls :
        LET cache_key == CacheKey(c.endpoint, c.params, c.data)
            current_time == now
            called == [RequestIdle EXCEPT !.endpoint = c.endpoint,
                                          !.cache_key = cache_key,
                                          !.method = c.method,
                                          !.current_time = current_time,
                                          !.prior = DictGet(succeeded, cache_key, NoSuccess),
                                          !.before = << cache, cache_expiry >>]
        IN  IF /\ cache_key \in DOMAIN cache
               /\ Fresh(DictGet(cache_expiry, cache_key, 0), current_time)
            THEN request' = [called EXCEPT !.pc = "done", !.returned = cache[cache_key]]
            ELSE IF api_key = DummyKey
            THEN request' = [called EXCEPT !.pc = "done",
                                           !.returned = MockResponse(c.endpoint)]
            ELSE request' = [called EXCEPT !.pc = "waiting", !.issued = TRUE]
    /\ UNCHANGED << api_key, cache, cache_expiry, now, succeeded >>
    /\ UNCHANGED << metro, limiter >>

\* The request succeeds: the response is stored with its expiry time.
RequestSucceeds ==
    /\ request.pc = "waiting"
    /\ \E body \in Responses :
        /\ cache' = DictSet(cache, request.cache_key, body)
        /\ cache_expiry' = DictSet(cache_expiry, request.cache_key,
                                   request.current_time + cache_duration)
        /\ succeeded' = DictSet(succeeded, request.cache_key,
                                [known |-> TRUE, at |-> request.current_time,
                                 response |-> body])
        /\ request' = [request EXCEPT !.pc = "done", !.returned = body]
    /\ UNCHANGED << api_key, now >>
    /\ UNCHANGED << metro, limiter >>

\* requests.exceptions.RequestException: None is returned.
RequestFails ==
    /\ request.pc = "waiting"
    /\ request' = [request EXCEPT !.pc = "done", !.failed = TRUE, !.returned = None]
    /\ UNCHANGED << api_key, cache, cache_expiry, now, succeeded >>
    /\ UNCHANGED << metro, limiter >>

\* The caller takes the value returned.
RequestReturns ==
    /\ request.pc = "done"
    /\ request' = RequestIdle
    /\ UNCHANGED << api_key, cache, cache_expiry, now, succeeded >>
    /\ UNCHANGED << metro, limiter >>

\* The clock moves on.
TimePasses ==
    /\ \E t \in Times :
        /\ t > now
        /\ now' = t
    /\ UNCHANGED << api_key, cache, cache_expiry, request, succeeded >>
    /\ UNCHANGED << metro, limiter >>

ApiNext ==
    \/ DMRCApiInit
    \/ MakeRequest
    \/ RequestSucceeds
    \/ RequestFails
    \/ RequestReturns
    \/ TimePasses

\* The requests of one DMRCApi object, made one after another.
ApiSpec == Init /\ [][ApiNext]_vars

\* ------------------------------------------------------------------------
\* Reference definitions for the properties
\* ------------------------------------------------------------------------

\* All simple paths of g that extend path to b.
RECURSIVE ExtendPaths(_, _, _)
ExtendPaths(g, path, b) ==
    IF path[Len(path)] = b THEN { path }
    ELSE UNION { ExtendPaths(g, Append(path, n), b) :
                    n \in (DOMAIN g[path[Len(path)]]) \ SeqToSet(path) }

SimplePaths(g, a, b) == ExtendPaths(g, << a >>, b)

\* Sum of the edge weights between consecutive stations of a path.
RECURSIVE PathWeight(_, _)
PathWeight(g, path) ==
    IF Len(path) < 2 THEN 0
    ELSE g[path[1]][path[2]] + PathWeight(g, Tail(path))

\* Number of line changes of a path, as _identify_line_changes counts them.
ChangeCount(path) == Len(identify_line_changes(station_lines, path))

SetMin(S) == CHOOSE x \in S : \A y \in S : x <= y

\* The raw argument names a station / the station it names.
Resolves(raw) == \E a \in stations : raw \in RawNames(a)
StationOf(raw) == CHOOSE a \in stations : raw \in RawNames(a)

\* A call has returned and its result is in `result`.
Returned(operation) == pc = "done" /\ op = operation

\* One of the two route searches has returned.
RouteReturned ==
    Returned("find_shortest_path") \/ Returned("find_route_least_changes")

\* A call on two resolved stations that some path connects has returned.
ReturnedConnected(operation) ==
    /\ Returned(operation)
    /\ Resolves(start) /\ Resolves(end)
    /\ SimplePaths(graph, StationOf(start), StationOf(end)) # {}

\* The simple paths between the two stations of the running call.
QueryPaths == SimplePaths(graph, StationOf(start), StationOf(end))

\* ------------------------------------------------------------------------
\* Properties
\* ------------------------------------------------------------------------

\* C1: for every pair of resolved stations joined by some path, the distance
\* find_shortest_path returns is the least total edge weight over all paths
\* between them, although the search stops when the destination is popped.
C1_ShortestDistanceMinimal ==
    ReturnedConnected("find_shortest_path") =>
        /\ result.path # << >>
        /\ result.distance = SetMin({ PathWeight(graph, p) : p \in QueryPaths })

\* A shortest-path call returned early (entries left in the queue) for a pair
\* that has a longer alternative path.
C1_Witness ==
    /\ ReturnedConnected("find_shortest_path")
    /\ sp.pq # {}
    /\ \E p \in QueryPaths : PathWeight(graph, p) > result.distance
    /\ Len(result.path) >= 3

\* C2: the path find_route_least_changes returns has the least number of line
\* changes among all simple paths between the two stations.
C2_LeastChangesMinimal ==
    ReturnedConnected("find_route_least_changes") =>
        /\ result.path # << >>
        /\ \A p \in QueryPaths : Len(result.line_changes) <= ChangeCount(p)

\* A least-changes call returned a path with fewer changes than a shorter
\* simple path between the same stations.
C2_Witness ==
    /\ ReturnedConnected("find_route_least_changes")
    /\ \E p \in QueryPaths :
          /\ PathWeight(graph, p) < result.distance
          /\ ChangeCount(p) > Len(result.line_changes)

\* C3: among the simple paths with the least number of line changes, the path
\* find_route_least_changes returns has the least total distance.
C3_CheapestAmongLeastChanges ==
    ReturnedConnected("find_route_least_changes") =>
        LET least == SetMin({ ChangeCount(p) : p \in QueryPaths })
        IN  \A p \in QueryPaths :
                ChangeCount(p) = least =>
                    PathWeight(graph, result.path) <= PathWeight(graph, p)

\* A least-changes call returned where two simple paths tie on the least
\* number of changes with different distances, after states were pruned or
\* expanded.
C3_Witness ==
    /\ ReturnedConnected("find_route_least_changes")
    /\ DOMAIN lc.visited # {}
    /\ LET least == SetMin({ ChangeCount(p) : p \in QueryPaths })
       IN  \E p, q \in QueryPaths :
              /\ ChangeCount(p) = least /\ ChangeCount(q) = least
              /\ PathWeight(graph, p) < PathWeight(graph, q)

\* C4: consecutive stations of every returned non-empty path are joined by an
\* edge of the graph.
C4_PathContinuity ==
    (RouteReturned /\ result.path # << >>) =>
        \A i \in 1..(Len(result.path) - 1) :
            /\ result.path[i] \in DOMAIN graph
            /\ result.path[i + 1] \in DOMAIN graph[result.path[i]]

\* A call returned a path of at least three stations.
C4_Witness ==
    /\ RouteReturned
    /\ Len(result.path) >= 3

\* C5: every returned non-empty path starts at the resolved source, ends at
\* the resolved destination and holds no station twice.
C5_PathEndpointsDistinct ==
    (RouteReturned /\ result.path # << >>) =>
        /\ Resolves(start) /\ Resolves(end)
        /\ result.path[1] = StationOf(start)
        /\ result.path[Len(result.path)] = StationOf(end)
        /\ \A i, j \in 1..Len(result.path) : result.path[i] = result.path[j] => i = j

\* A call returned a path of several stations between two different stations.
C5_Witness ==
    /\ RouteReturned
    /\ Len(result.path) >= 2
    /\ Resolves(start) /\ Resolves(end)
    /\ StationOf(start) # StationOf(end)

\* C6: the distance returned with a non-empty path is the sum of the edge
\* weights between consecutive stations of that path, rounded to 2 decimals.
C6_DistanceIsPathWeight ==
    (RouteReturned /\ result.path # << >>) =>
        result.distance = Round2(PathWeight(graph, result.path))

\* A shortest-path call returned a path of several edges with its distance.
C6_Witness ==
    /\ Returned("find_shortest_path")
    /\ Len(result.path) >= 3
    /\ result.distance > 0

C8_LeastChangesSelfRoute ==
    \A a \in stations :
        (Returned("find_route_least_changes") /\ start = Str(a) /\ end = Str(a)) =>
            /\ result.path = << a >>
            /\ result.distance = 0
            /\ result.line_changes = << >>
            /\ result.raised = "None"
            /\ lc.visited = << >>
            /\ lc.pq = {}

\* A least-changes call from a station to itself returned.
C8_Witness ==
    /\ Returned("find_route_least_changes")
    /\ \E a \in stations : start = Str(a) /\ end = Str(a) /\ result.path = << a >>

\* A call whose arguments are non-empty strings, one of which names no station.
UnresolvedCall ==
    /\ RouteReturned
    /\ Truthy(start) /\ Truthy(end)
    /\ ~Resolves(start) \/ ~Resolves(end)

\* C9 as stated: an unresolved station name makes both operations fail with a
\* StationNotFoundError.
C9_StationNotFoundRaised ==
    UnresolvedCall => result.raised = "StationNotFoundError"

\* C9 as amended: an unresolved station name raises nothing; both operations
\* return ([], 0, []); find_shortest_path logs one error that names the raw
\* unresolved argument (the source first), find_route_least_changes logs
\* nothing.
C9_UnresolvedReturnsEmpty ==
    UnresolvedCall =>
        /\ result.raised = "None"
        /\ result.path = << >> /\ result.distance = 0 /\ result.line_changes = << >>
        /\ op = "find_shortest_path" =>
              log = << IF ~Resolves(start)
                       THEN [level |-> "error", msg |-> "Start station not found",
                             names |-> << start >>]
                       ELSE [level |-> "error", msg |-> "End station not found",
                             names |-> << end >>] >>
        /\ op = "find_route_least_changes" => log = << >>

\* find_shortest_path returned for a known source and an unknown destination.
C9_Witness ==
    /\ UnresolvedCall
    /\ op = "find_shortest_path"
    /\ Resolves(start)
    /\ end \in UnknownInputs

\* The raw argument is None, "", blank, or names no station.
BadInput(x) == x = None \/ x = Str(<< >>) \/ x \in BlankInputs \/ x \in UnknownInputs

\* C10: when either argument is None, empty, blank or the name of no station,
\* both operations return exactly ([], 0, []) and raise nothing.
C10_BadInputReturnsEmpty ==
    (RouteReturned /\ (BadInput(start) \/ BadInput(end))) =>
        result = [path |-> << >>, distance |-> 0, line_changes |-> << >>,
                  raised |-> "None"]

\* find_route_least_changes returned for a blank source and a station.
C10_Witness ==
    /\ Returned("find_route_least_changes")
    /\ start \in BlankInputs
    /\ Resolves(end)

\* C11: when both names resolve but no path joins the two stations, both
\* searches return ([], 0, []) as an ordinary result: nothing is raised, and
\* find_shortest_path logs a warning, not an error.
C11_NoPathReturnsEmpty ==
    (/\ RouteReturned
     /\ Resolves(start) /\ Resolves(end)
     /\ SimplePaths(graph, StationOf(start), StationOf(end)) = {}) =>
        /\ result.path = << >>
        /\ result.distance = 0
        /\ result.line_changes = << >>
        /\ result.raised = "None"
        /\ \A i \in 1..Len(log) : log[i].level # "error"

\* find_shortest_path returned for two stations of different components after
\* it had settled every station it could reach from the source.
C11_Witness ==
    /\ Returned("find_shortest_path")
    /\ Resolves(start) /\ Resolves(end)
    /\ SimplePaths(graph, StationOf(start), StationOf(end)) = {}
    /\ Cardinality(sp.visited) >= 3
    /\ sp.pq = {}

\* C12: for every two stations joined by a path, find_shortest_path returns
\* the same distance for (A, B) as for (B, A).
C12_DistanceSymmetric ==
    ReturnedConnected("find_shortest_path") =>
        result.distance =
            find_shortest_path(stations, graph, station_lines, end, start).distance

\* find_shortest_path returned a route of several edges between two stations
\* that a longer path joins too, and the reverse query returns it reversed.
C12_Witness ==
    /\ ReturnedConnected("find_shortest_path")
    /\ Len(result.path) >= 3
    /\ result.distance > 0
    /\ \E p \in QueryPaths : PathWeight(graph, p) > result.distance
    /\ find_shortest_path(stations, graph, station_lines, end, start).path
            = Reverse(result.path)

\* The result the running operation returns for the raw arguments s and e.
Rerun(s, e) ==
    IF op = "find_shortest_path"
    THEN find_shortest_path(stations, graph, station_lines, s, e)
    ELSE find_route_least_changes(stations, graph, station_lines, s, e)

\* C13: two queries whose names differ only in letter case and in leading or
\* trailing whitespace resolve to the same stations and return the same path,
\* distance and line changes, in both searches: every query returns what the
\* query with both names written as listed returns.
C13_SpellingInsensitive ==
    (RouteReturned /\ Resolves(start) /\ Resolves(end)) =>
        /\ op = "find_shortest_path" =>
              sp.start = StationOf(start) /\ sp.end = StationOf(end)
        /\ op = "find_route_least_changes" =>
              lc.start = StationOf(start) /\ lc.end = StationOf(end)
        /\ LET listed == Rerun(Str(StationOf(start)), Str(StationOf(end)))
           IN  /\ listed.path = result.path
               /\ listed.distance = result.distance
               /\ listed.line_changes = result.line_changes

\* find_route_least_changes returned a route with a line change for a source
\* written in upper case between blanks and a destination written as listed.
C13_Witness ==
    /\ Returned("find_route_least_changes")
    /\ Resolves(start) /\ Resolves(end)
    /\ start # Str(StationOf(start))
    /\ end = Str(StationOf(end))
    /\ Len(result.path) >= 3
    /\ result.line_changes # << >>

\* C14: the adjacency mapping is symmetric with equal weights, and every
\* station of an edge, of the table or of the mapping, is in the station set
\* and is a key of the mapping.
C14_GraphSymmetric ==
    /\ \A a \in DOMAIN graph : \A b \in DOMAIN graph[a] :
          /\ b \in DOMAIN graph
          /\ a \in DOMAIN graph[b]
          /\ graph[b][a] = graph[a][b]
          /\ a \in stations /\ b \in stations
    /\ \A i \in 1..Len(all_lines) : \A k \in 1..2 :
          /\ all_lines[i][k] \in stations
          /\ all_lines[i][k] \in DOMAIN graph

\* The network is built and no call is running; a station with three
\* neighbours exists, and a row's second station has its first as neighbour.
C14_Witness ==
    /\ pc = "idle"
    /\ \E a \in DOMAIN graph : Cardinality(DOMAIN graph[a]) >= 3
    /\ \E i \in 1..Len(all_lines) :
          all_lines[i][1] \in DOMAIN graph[all_lines[i][2]]

\* Rows i and j of the table list the same unordered pair of stations.
SamePair(i, j) ==
    { all_lines[i][1], all_lines[i][2] } = { all_lines[j][1], all_lines[j][2] }

\* The last row of the table that lists the pair of row i.
LastRowOfPair(i) ==
    CHOOSE j \in 1..Len(all_lines) :
        /\ SamePair(i, j)
        /\ \A k \in 1..Len(all_lines) : SamePair(i, k) => k <= j

\* C15 as stated: every row (A, B, d) of the table has graph[A][B] =
\* graph[B][A] = d, the pairs listed on more than one line included.
C15_EveryRowWeightKept ==
    \A i \in 1..Len(all_lines) :
        /\ graph[all_lines[i][1]][all_lines[i][2]] = all_lines[i][3]
        /\ graph[all_lines[i][2]][all_lines[i][1]] = all_lines[i][3]

\* C15 as amended: for every row (A, B, d) of the table, graph[A][B] and
\* graph[B][A] both hold the distance of the last row that lists the pair
\* {A, B}; this is d when the pair is listed once.
C15_LastRowWeightKept ==
    \A i \in 1..Len(all_lines) :
        /\ graph[all_lines[i][1]][all_lines[i][2]] = all_lines[LastRowOfPair(i)][3]
        /\ graph[all_lines[i][2]][all_lines[i][1]] = all_lines[LastRowOfPair(i)][3]

\* The network is built from a table in which two rows list one pair with
\* different distances, and the graph holds the later one.
C15_Witness ==
    \E i, j \in 1..Len(all_lines) :
        /\ i < j
        /\ SamePair(i, j)
        /\ all_lines[i][3] # all_lines[j][3]
        /\ graph[all_lines[i][1]][all_lines[i][2]] = all_lines[j][3]

\* The lines whose station list holds the station.
LinesThrough(station) == { n \in DOMAIN lines : station \in SeqToSet(lines[n]) }

\* C16: get_interchange_stations returns, in ascending order and without
\* repetition, exactly the stations that belong to two or more lines.
C16_InterchangeStations ==
    Returned("get_interchange_stations") =>
        /\ \A i, j \in 1..Len(result) : i < j => StrLess(result[i], result[j])
        /\ SeqToSet(result) = { s \in stations : Cardinality(LinesThrough(s)) >= 2 }

\* get_interchange_stations returned several stations while some station of
\* the network is on one line only.
C16_Witness ==
    /\ Returned("get_interchange_stations")
    /\ Len(result) >= 3
    /\ \E s \in stations : Cardinality(LinesThrough(s)) = 1

\* The line set carried after station i (1-based) of a path: the lines of the
\* first station, narrowed to the intersection on every hop that shares a
\* line, and replaced by the lines of the station after a change.
RECURSIVE Carried(_, _)
Carried(path, i) ==
    IF i = 1 THEN LinesThrough(path[1])
    ELSE LET before == Carried(path, i - 1)
             here == LinesThrough(path[i])
         IN  IF before \cap here # {} THEN before \cap here
             ELSE IF before # {} /\ here # {} THEN here
             ELSE before

\* Station i (1-based, i >= 2) of a path forces a change of line.
ChangeAt(path, i) ==
    /\ Carried(path, i - 1) \cap LinesThrough(path[i]) = {}
    /\ Carried(path, i - 1) # {}
    /\ LinesThrough(path[i]) # {}

\* C17: _identify_line_changes emits an event at position i >= 1 exactly when
\* the carried line set and the line set of station i are both non-empty and
\* share no line; the events come in path order, each with the station, the
\* carried set and the full line set of the station, which is carried on.
C17_LineChangeEvents ==
    Returned("_identify_line_changes") =>
        LET path == args[1]
        IN  /\ { result[k].position : k \in 1..Len(result) }
                  = { i - 1 : i \in { j \in 2..Len(path) : ChangeAt(path, j) } }
            /\ \A k, l \in 1..Len(result) :
                  k < l => result[k].position < result[l].position
            /\ \A k \in 1..Len(result) :
                  /\ result[k].station = path[result[k].position + 1]
                  /\ result[k].from_lines = Carried(path, result[k].position)
                  /\ result[k].to_lines = LinesThrough(result[k].station)

\* _identify_line_changes returned one event at the third station of a path,
\* after the hop to the second station had narrowed the carried set.
C17_Witness ==
    /\ Returned("_identify_line_changes")
    /\ Len(result) = 1
    /\ result[1].position = 2
    /\ result[1].from_lines # LinesThrough(args[1][1])
    /\ result[1].from_lines # LinesThrough(args[1][2])

\* C18: calculate_fare gives every distance one token fare, the upper limit
\* of each tier included: up to 2 km 10, up to 5 km 20, up to 12 km 30, up to
\* 21 km 40, up to 32 km 50, above 32 km 60.
C18_FareTiers ==
    Returned("calculate_fare") =>
        LET d == args[1]
            t == result.token_fare
        IN  /\ t \in { 10, 20, 30, 40, 50, 60 }
            /\ t = 10 <=> d <= 2000
            /\ t = 20 <=> (2000 < d /\ d <= 5000)
            /\ t = 30 <=> (5000 < d /\ d <= 12000)
            /\ t = 40 <=> (12000 < d /\ d <= 21000)
            /\ t = 50 <=> (21000 < d /\ d <= 32000)
            /\ t = 60 <=> 32000 < d

\* calculate_fare returned 50 for exactly 32 km.
C18_Witness ==
    /\ Returned("calculate_fare")
    /\ args[1] = 32000
    /\ result.token_fare = 50

\* C19: the smart-card fare is the token fare times 0.9 rounded down, the
\* savings are the token fare minus the smart-card fare, and the recommended
\* fare is the smart-card fare with the flag set and the token fare without.
C19_SmartCardFare ==
    Returned("calculate_fare") =>
        /\ 10 * result.smart_card_fare <= 9 * result.token_fare
        /\ 9 * result.token_fare < 10 * (result.smart_card_fare + 1)
        /\ result.savings = result.token_fare - result.smart_card_fare
        /\ args[2] => result.recommended_fare = result.smart_card_fare
        /\ ~args[2] => result.recommended_fare = result.token_fare

\* calculate_fare returned with the flag set, and the recommended fare is
\* below the token fare by the savings.
C19_Witness ==
    /\ Returned("calculate_fare")
    /\ args[2]
    /\ result.savings > 0
    /\ result.recommended_fare = result.token_fare - result.savings

\* C20: get_route_summary of an empty path returns a mapping with the one
\* entry 'error', whatever the distance and the line changes, and never a
\* summary with zero values.
C20_EmptyPathSummary ==
    (Returned("get_route_summary") /\ args[1] = << >>) =>
        /\ DOMAIN result = { "error" }
        /\ result.error = "No route available"

\* get_route_summary returned for an empty path handed over with a distance
\* and line changes that are not zero.
C20_Witness ==
    /\ Returned("get_route_summary")
    /\ args[1] = << >>
    /\ args[2] > 0
    /\ args[3] # << >>
    /\ "error" \in DOMAIN result

\* C21: for a non-empty path of n stations handed over with c line changes,
\* get_route_summary reports the first and the last station, n, the given
\* distance, and an integer number of minutes within 0.5 of 2.5 n + 3 c.
C21_SummaryValues ==
    (Returned("get_route_summary") /\ args[1] # << >>) =>
        LET path == args[1]
            halves == 5 * Len(path) + 6 * Len(args[3])
        IN  /\ result.start = path[1]
            /\ result.end = path[Len(path)]
            /\ result.stations_count = Len(path)
            /\ result.distance_km = args[2]
            /\ result.estimated_time_min \in Int
            /\ 2 * result.estimated_time_min - halves <= 1
            /\ halves - 2 * result.estimated_time_min <= 1

\* get_route_summary returned for three stations and one change: 10.5
\* minutes, reported as 10.
C21_Witness ==
    /\ Returned("get_route_summary")
    /\ Len(args[1]) = 3
    /\ Len(args[3]) = 1
    /\ args[1][1] # args[1][3]
    /\ result.estimated_time_min = 10

\* C22: find_all_routes returns at most two routes, tagged 'shortest' or
\* 'least_changes' only; when a path joins the two stations the first route
\* is the result of find_shortest_path tagged 'shortest'; the second route is
\* there exactly when find_route_least_changes returns a non-empty path that
\* differs from the shortest one, and it is that result tagged 'least_changes'.
C22_AllRoutes ==
    Returned("find_all_routes") =>
        LET first == find_shortest_path(stations, graph, station_lines, start, end)
            second == find_route_least_changes(stations, graph, station_lines, start, end)
        IN  /\ Len(result) <= 2
            /\ \A i \in 1..Len(result) :
                  result[i].route_type \in { "shortest", "least_changes" }
            /\ (/\ Resolves(start) /\ Resolves(end)
                /\ SimplePaths(graph, StationOf(start), StationOf(end)) # {}) =>
                  /\ Len(result) >= 1
                  /\ result[1].route_type = "shortest"
                  /\ result[1].path = first.path
                  /\ result[1].distance = first.distance
                  /\ result[1].line_changes = first.line_changes
            /\ (\E i \in 1..Len(result) : result[i].route_type = "least_changes")
                  <=> (second.path # << >> /\ second.path # first.path)
            /\ \A i \in 1..Len(result) :
                  result[i].route_type = "least_changes" =>
                      /\ i = 2
                      /\ result[i].path = second.path
                      /\ result[i].distance = second.distance
                      /\ result[i].line_changes = second.line_changes

\* find_all_routes returned two routes: the least-changes route is longer
\* than the shortest one and has fewer changes.
C22_Witness ==
    /\ Returned("find_all_routes")
    /\ Len(result) = 2
    /\ result[2].distance > result[1].distance
    /\ Len(result[2].line_changes) < Len(result[1].line_changes)

\* The string of a query, and whether a name matches it without regard to case.
QueryOf(query) == IF query = None THEN << >> ELSE query.s

Matches(name, query) == Contains(LowerStr(name), LowerStr(QueryOf(query)))

Leads(name, query) == StartsWith(LowerStr(name), LowerStr(QueryOf(query)))

ResultOnBuiltNetwork ==
    LET sts == BuildStations(all_lines)
        g == BuildGraph(all_lines)
        sl == BuildStationLines(BuildLines)
    IN  CASE op = "find_shortest_path" -> find_shortest_path(sts, g, sl, start, end)
          [] op = "find_route_least_changes" ->
                find_route_least_changes(sts, g, sl, start, end)
          [] op = "find_all_routes" -> find_all_routes(sts, g, sl, start, end)
          [] op = "_identify_line_changes" -> identify_line_changes(sl, args[1])
          [] op = "calculate_fare" -> calculate_fare(args[1], args[2])
          [] op = "get_route_summary" -> get_route_summary(args[1], args[2], args[3])
          [] op = "search_stations" -> search_stations(sts, args[1])
          [] op = "get_interchange_stations" -> get_interchange_stations(sl)

C24_SearchesTerminate ==
    (pc \in { "sp_loop", "sp_after", "lc_loop" }) ~> (pc = "done")

\* find_route_least_changes returned after its queue had run empty, having
\* expanded several states.
C24_Witness ==
    /\ Returned("find_route_least_changes")
    /\ lc.pq = {}
    /\ Cardinality(DOMAIN lc.visited) >= 3
    /\ result.path = << >>

\* C26: in find_shortest_path, the entry popped for a station that is not yet
\* visited carries the best distance recorded for that station, so the stale
\* test, which runs after the station is marked visited, never discards it;
\* and every visited station other than the destination has had its edges
\* relaxed: no neighbour is recorded farther than through that station.
C26_FirstPopIsBest ==
    /\ (pc = "sp_loop" /\ sp.pq # {}) =>
          LET popped == SPHeapMin(sp.pq)
          IN  popped[2] \notin sp.visited =>
                  /\ popped[1] = sp.distances[popped[2]]
                  /\ ~(popped[1] > sp.distances[popped[2]])
    /\ (op = "find_shortest_path" /\ pc \in { "sp_loop", "sp_after", "done" }) =>
          \A v \in sp.visited \ { sp.end } :
              \A n \in DOMAIN graph[v] :
                  sp.distances[n] <= NewDistance(sp.distances[v], graph[v][n])

\* The loop of find_shortest_path is about to pop, for the first time, a
\* station for which the queue holds two entries with different distances.
C26_Witness ==
    /\ pc = "sp_loop"
    /\ sp.pq # {}
    /\ SPHeapMin(sp.pq)[2] \notin sp.visited
    /\ \E x \in sp.pq :
          x[2] = SPHeapMin(sp.pq)[2] /\ x[1] > SPHeapMin(sp.pq)[1]

\* C27: on a network where every station is on some line, the change count
\* find_route_least_changes has accumulated for a path, the first key of its
\* queue entry, is the number of events _identify_line_changes emits for the
\* path; this holds for every queued path, the returned one included.
C27_ChangesMatchEvents ==
    (/\ pc = "lc_loop"
     /\ \A s \in stations : StationLineSet(station_lines, s) # {}) =>
        \A e \in lc.pq :
            e.changes = Len(identify_line_changes(station_lines, e.path))

\* The loop of find_route_least_changes is about to pop and return a path of
\* several stations for which it has counted a change of line.
C27_Witness ==
    /\ pc = "lc_loop"
    /\ lc.pq # {}
    /\ IsGoal(LCHeapMin(lc.pq), lc.end)
    /\ LCHeapMin(lc.pq).changes >= 1
    /\ Len(LCHeapMin(lc.pq).path) >= 4

\* C28: for every two resolved stations, find_route_least_changes returns a
\* non-empty path exactly when find_shortest_path does, which is exactly
\* when some path joins the two stations.
C28_SameReachability ==
    (RouteReturned /\ Resolves(start) /\ Resolves(end)) =>
        /\ result.path # << >>
              <=> SimplePaths(graph, StationOf(start), StationOf(end)) # {}
        /\ find_route_least_changes(stations, graph, station_lines, start, end).path
                # << >>
              <=> find_shortest_path(stations, graph, station_lines, start, end).path
                    # << >>

\* find_route_least_changes returned a path although it had expanded one
\* station under two different carried line sets and left entries queued.
C28_Witness ==
    /\ Returned("find_route_least_changes")
    /\ Resolves(start) /\ Resolves(end)
    /\ Len(result.path) >= 3
    /\ lc.pq # {}
    /\ \E k, l \in DOMAIN lc.visited : k[1] = l[1] /\ k[2] # l[2]

\* C29: for each client address and each clock minute at most RATE_LIMIT
\* requests are passed on to the handler, whatever the interleaving of the
\* requests handled concurrently.
C29_AtMostLimitEntered ==
    \A key \in DOMAIN entered : entered[key] <= RATE_LIMIT

\* A _make_request call outside mock mode has returned.
MadeRequest == request.pc = "done" /\ api_key # DummyKey

====
